---- MODULE Spec2Model ----
(***************************************************************************)
(* Pricing, benefits, coupon and cart engine of the storefront's           *)
(* AppProvider (src/src/context/AppContext.tsx, the conflict-free copy     *)
(* that starts at line 2796), the product mapping of                       *)
(* src/src/services/products.ts and the checkout of                        *)
(* src/src/pages/CarritoPage.tsx.                                          *)
(*                                                                         *)
(* Conventions                                                             *)
(*  - money and quantities are integers; a non-finite JavaScript number    *)
(*    (NaN) is the sentinel NaN, which no finite quantity of the model     *)
(*    takes;                                                               *)
(*  - a discount fraction is kept as an integer percentage: 0.5 is 50,     *)
(*    0.1 is 10 and the cake's discountPercent 1 is 100;                   *)
(*  - null / undefined is the record NULL.                                 *)
(***************************************************************************)
EXTENDS Integers, Sequences, FiniteSets, TLC

NULL == [null |-> TRUE]
NaN == 1000000
NoYear == 0
NoAge == -1
NoDate == [y |-> 0, m |-> 0, d |-> 0]

(***************************************************************************)
(* Bounds of the model                                                     *)
(***************************************************************************)
MaxStock == 2
MaxCartLines == 2
MaxPrice == 30

(***************************************************************************)
(* Program constants                                                       *)
(***************************************************************************)
BDAY_CAKE_ID == "BDAY001"
FELICES_CODE == "FELICES50"
SENIOR_DISCOUNT == 50
PROMO_DISCOUNT == 10
DEFAULT_SHIPPING_COST == 3000
SHIPPING_VALUES == {3000, 6000}

(***************************************************************************)
(* The evaluation date (new Date()) and the inputs of the model            *)
(***************************************************************************)
Today == [y |-> 2025, m |-> 6, d |-> 15]
ThisYear == Today.y

ProductIds == {BDAY_CAKE_ID, "P1"}
Msgs == {"", "m"}
\* quantities a caller asks for: none, one, more than any stock, not a number
QtyInputs == {0, 1, 2, MaxStock + 1, NaN}

Max(a, b) == IF a >= b THEN a ELSE b
Min(a, b) == IF a <= b THEN a ELSE b

\* Number.isFinite on the numbers of the model
IsFinite(n) == n # NaN

\* Math.round(num / den) for den > 0: the nearest integer, halves towards
\* +infinity, which is floor(num/den + 1/2)
MathRound(num, den) == (2 * num + den) \div (2 * den)

\* String.prototype.toUpperCase on the strings of the model
ToUpperCase(s) ==
  CASE s = "felices50" -> "FELICES50"
    [] s = "5000off" -> "5000OFF"
    [] s = "enviogratis" -> "ENVIOGRATIS"
    [] OTHER -> s

\* String.prototype.trim on the strings of the model
Trim(s) ==
  CASE s = "  " -> ""
    [] s = " 5000off " -> "5000off"
    [] OTHER -> s

\* EMAIL_DUOC_REGEX.test(email): the address ends in @duoc.cl
EMAIL_DUOC_REGEX(email) ==
  email \in {"ana@duoc.cl", "rosa@duoc.cl", "leo@DUOC.CL", "sol@duoc.cl"}

(***************************************************************************)
(* The backend: product responses, customer profiles                       *)
(***************************************************************************)
\* the price the backend records for a product of the shop
BackendPrice(id) == IF id = BDAY_CAKE_ID THEN 15000 ELSE 20000

\* mapProduct, narrowed to the fields the engine reads; first the variant
\* that keeps the price of the response for every product
mapProductKeepingPrice(id, response) ==
  [id |-> id, precio |-> response.price, stock |-> response.stock]

mapProduct(id, response) ==
  [id |-> id,
   precio |-> IF id = BDAY_CAKE_ID THEN 0 ELSE response.price,
   stock |-> response.stock]

\* fetchProducts: the active products of the response, mapped
fetchProducts(remote) ==
  {mapProduct(id, remote[id]) : id \in {i \in ProductIds : remote[i].active}}

VARIABLES
  products,          \* the catalog held by the provider (useState products)
  cart,              \* the stored cart, a sequence of [id, qty, msg]
  customerProfile,   \* the authenticated customer, or NULL
  accounts,          \* the backend's customer profiles, by account id
  coupon,            \* the entered coupon code
  couponDefinitions, \* the coupon catalog, by upper-case code
  shippingCost,      \* the selected shipping cost
  lastPricing,       \* the last getProductPricing call of a page and its result
  auth,              \* the authentication state (useState auth)
  adminSession,      \* the administrator's session, or NULL
  authCalls,         \* the login, hydration and refresh calls in flight
  fetches            \* the product fetches issued so far, in the order of issue

vars == <<products, cart, customerProfile, accounts, coupon, couponDefinitions,
          shippingCost, lastPricing, auth, adminSession, authCalls, fetches>>

\* EMPTY_AUTH and the state applyAuthState is given after a login
EMPTY_AUTH == [token |-> FALSE, role |-> "", userId |-> ""]
AuthOf(role, userId) == [token |-> TRUE, role |-> role, userId |-> userId]


(***************************************************************************)
(* Dates (utils/dates is not among the sources: modelled from the          *)
(* specification, section 4.3)                                             *)
(***************************************************************************)
\* age in whole years as of Today, NoAge when there is no birth date
computeAge(fnac) ==
  IF fnac = NoDate THEN NoAge
  ELSE Today.y - fnac.y
       - (IF fnac.m > Today.m \/ (fnac.m = Today.m /\ fnac.d > Today.d) THEN 1 ELSE 0)

\* today's month/day equals the birth month/day
isBirthdayToday(fnac) ==
  fnac # NoDate /\ fnac.m = Today.m /\ fnac.d = Today.d

(***************************************************************************)
(* Customer profile                                                        *)
(***************************************************************************)
normalizeAccountStatus(status) ==
  IF status \in {"INACTIVE", "inactive"} THEN "inactive" ELSE "active"

normalizeShipCost(value) ==
  IF value \in SHIPPING_VALUES THEN value ELSE DEFAULT_SHIPPING_COST

\* mapCustomerProfile, narrowed to the fields the engine reads; a missing
\* defaultShippingCost is 0 and a missing birthdayRedeemedYear is NoYear
mapCustomerProfile(dto) ==
  [id |-> dto.id,
   email |-> dto.email,
   fnac |-> dto.birthDate,
   promoCode |-> dto.promoCode,
   felices50 |-> dto.felices50,
   bdayRedeemedYear |-> dto.birthdayRedeemedYear,
   defaultShip |-> dto.defaultShippingCost,
   status |-> normalizeAccountStatus(dto.status)]

\* the customer profiles the backend holds when the application starts
InitialAccounts ==
  [a \in {"c1", "c2", "c3", "c4", "c5", "c6"} |->
     CASE a = "c1" ->  \* student, birthday today, reward not yet claimed
            [id |-> "c1", email |-> "ana@duoc.cl",
             birthDate |-> [y |-> 2000, m |-> 6, d |-> 15],
             promoCode |-> "", felices50 |-> FALSE,
             birthdayRedeemedYear |-> NoYear, defaultShippingCost |-> 0,
             status |-> "ACTIVE"]
       [] a = "c2" ->  \* senior with the promo code, reward claimed last year
            [id |-> "c2", email |-> "rosa@duoc.cl",
             birthDate |-> [y |-> 1965, m |-> 6, d |-> 15],
             promoCode |-> "FELICES50", felices50 |-> FALSE,
             birthdayRedeemedYear |-> 2024, defaultShippingCost |-> 3000,
             status |-> "ACTIVE"]
       [] a = "c3" ->  \* promo customer aged exactly 50, no birthday today
            [id |-> "c3", email |-> "luis@gmail.com",
             birthDate |-> [y |-> 1975, m |-> 1, d |-> 20],
             promoCode |-> "felices50", felices50 |-> FALSE,
             birthdayRedeemedYear |-> NoYear, defaultShippingCost |-> 0,
             status |-> "ACTIVE"]
       [] a = "c4" ->  \* birthday today, reward already claimed this year
            [id |-> "c4", email |-> "leo@DUOC.CL",
             birthDate |-> [y |-> 1995, m |-> 6, d |-> 15],
             promoCode |-> "", felices50 |-> TRUE,
             birthdayRedeemedYear |-> 2025, defaultShippingCost |-> 3000,
             status |-> "ACTIVE"]
       [] a = "c5" ->  \* deactivated account
            [id |-> "c5", email |-> "eva@gmail.com",
             birthDate |-> NoDate,
             promoCode |-> "", felices50 |-> FALSE,
             birthdayRedeemedYear |-> NoYear, defaultShippingCost |-> 0,
             status |-> "INACTIVE"]
       [] OTHER ->     \* permanent discount, birthday today, reward not claimed
            [id |-> "c6", email |-> "sol@duoc.cl",
             birthDate |-> [y |-> 2001, m |-> 6, d |-> 15],
             promoCode |-> "", felices50 |-> TRUE,
             birthdayRedeemedYear |-> NoYear, defaultShippingCost |-> 0,
             status |-> "ACTIVE"]]

AccountIds == DOMAIN InitialAccounts

\* customerSession is null exactly when customerProfile is, and copies its fields
customerSession == customerProfile

birthdayRewardEligible ==
  /\ customerSession # NULL
  /\ EMAIL_DUOC_REGEX(customerSession.email)
  /\ isBirthdayToday(customerSession.fnac)

\* first the variant that forgets the redemption year
birthdayRewardAvailableEveryYear == birthdayRewardEligible

birthdayRewardAvailable ==
  /\ birthdayRewardEligible
  /\ customerSession.bdayRedeemedYear # ThisYear

\* first the variant whose senior discount starts at the age of 50
userDiscountPercentFromFifty ==
  IF customerProfile = NULL THEN 0
  ELSE LET age == computeAge(customerProfile.fnac)
       IN IF age # NoAge /\ age >= 50 THEN SENIOR_DISCOUNT
          ELSE IF ToUpperCase(customerProfile.promoCode) = FELICES_CODE
                  \/ customerProfile.felices50
               THEN PROMO_DISCOUNT
               ELSE 0

userDiscountPercent ==
  IF customerProfile = NULL THEN 0
  ELSE LET age == computeAge(customerProfile.fnac)
       IN IF age # NoAge /\ age > 50 THEN SENIOR_DISCOUNT
          ELSE IF ToUpperCase(customerProfile.promoCode) = FELICES_CODE
                  \/ customerProfile.felices50
               THEN PROMO_DISCOUNT
               ELSE 0

(***************************************************************************)
(* Pricing Calculator                                                      *)
(***************************************************************************)
\* the quantity coercion of getProductPricing
PricingQuantity(qty) == IF IsFinite(qty) THEN Max(1, qty) ELSE 1

\* the discounted unit price of the general case; first the variant that
\* truncates instead of rounding
UnitPriceTruncated(originalUnitPrice, discountPercent) ==
  IF discountPercent > 0
  THEN Max(0, (originalUnitPrice * (100 - discountPercent)) \div 100)
  ELSE originalUnitPrice

UnitPriceOf(originalUnitPrice, discountPercent) ==
  IF discountPercent > 0
  THEN Max(0, MathRound(originalUnitPrice * (100 - discountPercent), 100))
  ELSE originalUnitPrice

\* the discount of one unit, here rounded from the percentage on its own
DiscountPerUnitFromPercent(originalUnitPrice, unitPrice, discountPercent) ==
  MathRound(originalUnitPrice * discountPercent, 100)

DiscountPerUnitOf(originalUnitPrice, unitPrice, discountPercent) ==
  Max(0, originalUnitPrice - unitPrice)

\* whether getProductPricing takes its birthday branch; first the variants
\* in which a customer discount goes before the reward, and in which the
\* cake is free for everybody
IsRewardedCakeWithoutDiscount(product) ==
  product.id = BDAY_CAKE_ID /\ birthdayRewardAvailable /\ userDiscountPercent = 0

IsCake(product) == product.id = BDAY_CAKE_ID

IsRewardedCake(product) ==
  product.id = BDAY_CAKE_ID /\ birthdayRewardAvailable

getProductPricing(product, qty) ==
  LET quantity == PricingQuantity(qty)
  IN IF IsRewardedCake(product)
     THEN LET originalUnitPrice == product.precio
              discountPerUnit == originalUnitPrice
          IN [originalUnitPrice |-> originalUnitPrice,
              unitPrice |-> 0,
              discountPercent |-> 100,
              discountPerUnit |-> discountPerUnit,
              originalTotal |-> originalUnitPrice * quantity,
              discountTotal |-> discountPerUnit * quantity,
              total |-> 0]
     ELSE LET originalUnitPrice == product.precio
              discountPercent == userDiscountPercent
              unitPrice == UnitPriceOf(originalUnitPrice, discountPercent)
              discountPerUnit ==
                DiscountPerUnitOf(originalUnitPrice, unitPrice, discountPercent)
          IN [originalUnitPrice |-> originalUnitPrice,
              unitPrice |-> unitPrice,
              discountPercent |-> discountPercent,
              discountPerUnit |-> discountPerUnit,
              originalTotal |-> originalUnitPrice * quantity,
              discountTotal |-> discountPerUnit * quantity,
              total |-> unitPrice * quantity]


(***************************************************************************)
(* Cart Aggregator                                                         *)
(***************************************************************************)
\* products.find((p) => p.id === id): the catalog holds one product per id
HasProduct(id) == \E p \in products : p.id = id
FindProduct(id) == CHOOSE p \in products : p.id = id

\* the stock ceiling of a cart line in cartTotals
Available(product) ==
  Max(1, IF product.id = BDAY_CAKE_ID THEN Min(1, product.stock) ELSE product.stock)

\* the quantity cartTotals gives the line of product whose stored quantity
\* is qty; first the variant that forgets the stock ceiling
LineQtyUnclamped(product, qty) == Max(1, IF IsFinite(qty) THEN qty ELSE 1)

LineQty(product, qty) ==
  Min(Available(product), Max(1, IF IsFinite(qty) THEN qty ELSE 1))

\* the entry cartTotals builds for the stored line item, whose product exists
CartEntry(item) ==
  LET product == FindProduct(item.id)
      qty == LineQty(product, item.qty)
      pricing == getProductPricing(product, qty)
  IN [product |-> product,
      qty |-> qty,
      msg |-> item.msg,
      subtotal |-> pricing.originalTotal,
      pricing |-> pricing]

\* whether cartTotals keeps the stored line item; first the variant that also
\* drops the lines of a product without stock
KeepsLineInStock(item) == HasProduct(item.id) /\ FindProduct(item.id).stock > 0

KeepsLine(item) == HasProduct(item.id)

\* cart.map(...).filter(Boolean)
RECURSIVE CartItems(_)
CartItems(c) ==
  IF c = <<>> THEN <<>>
  ELSE IF KeepsLine(Head(c))
       THEN <<CartEntry(Head(c))>> \o CartItems(Tail(c))
       ELSE CartItems(Tail(c))

\* values.reduce((sum, value) => sum + value, 0)
RECURSIVE SumOver(_)
SumOver(values) ==
  IF values = <<>> THEN 0 ELSE Head(values) + SumOver(Tail(values))

EntrySubtotal(entry) == entry.subtotal
EntryTotal(entry) == entry.pricing.total
EntryDiscountTotal(entry) == entry.pricing.discountTotal
EntryQty(entry) == entry.qty

cartTotals ==
  LET items == CartItems(cart)
  IN [items |-> items,
      subTotal |-> SumOver([i \in 1..Len(items) |-> EntrySubtotal(items[i])]),
      effectiveSubtotal |-> SumOver([i \in 1..Len(items) |-> EntryTotal(items[i])]),
      discountTotal |-> SumOver([i \in 1..Len(items) |-> EntryDiscountTotal(items[i])]),
      totalQty |-> SumOver([i \in 1..Len(items) |-> EntryQty(items[i])])]

(***************************************************************************)
(* Coupon Evaluator                                                        *)
(***************************************************************************)
\* the coupon catalog fetchCoupons returns: a flat 5000, a free shipping, a
\* flat amount below zero and a coupon under the reserved promo code
RemoteCoupons ==
  [c \in {"5000OFF", "ENVIOGRATIS", "MENOS", "FELICES50"} |->
     CASE c = "5000OFF" -> [code |-> c, type |-> "amount", value |-> 5000]
       [] c = "ENVIOGRATIS" -> [code |-> c, type |-> "ship", value |-> 0]
       [] c = "MENOS" -> [code |-> c, type |-> "amount", value |-> -500]
       [] OTHER -> [code |-> c, type |-> "amount", value |-> 1000]]

NoCoupons == [c \in {} |-> NULL]

CouponInputs ==
  {"", "  ", "5000OFF", " 5000off ", "ENVIOGRATIS", "MENOS", "FELICES50",
   "felices50", "NOPE"}

\* the codes evaluateCoupon refuses before it looks at the catalog; first the
\* variant that refuses the empty code only
IsRefusedCodeEmptyOnly(code) == code = ""

IsRefusedCode(code) == code = "" \/ code = FELICES_CODE

\* the discount of a flat-amount coupon; first the variant that forgets the
\* subtotal
AmountDiscountUnclamped(subTotal, value) == Max(0, value)

AmountDiscount(subTotal, value) == Max(0, Min(subTotal, value))

\* the shipping a free-shipping coupon leaves; first the variant that leaves
\* the shipping as it was
ShipAfterUnchanged(shipCost) == shipCost

ShipAfterFreeShipping(shipCost) == 0

evaluateCoupon(subTotal, shipCost) ==
  LET code == ToUpperCase(Trim(coupon))
  IN IF IsRefusedCode(code)
     THEN [valid |-> FALSE, discount |-> 0, shipAfter |-> shipCost]
     ELSE IF code \notin DOMAIN couponDefinitions
     THEN [valid |-> FALSE, discount |-> 0, shipAfter |-> shipCost]
     ELSE LET definition == couponDefinitions[code]
          IN IF definition.type = "amount"
             THEN [valid |-> TRUE,
                   discount |-> AmountDiscount(subTotal, definition.value),
                   shipAfter |-> shipCost]
             ELSE IF definition.type = "ship"
             THEN [valid |-> TRUE, discount |-> 0,
                   shipAfter |-> ShipAfterFreeShipping(shipCost)]
             ELSE [valid |-> FALSE, discount |-> 0, shipAfter |-> shipCost]

(***************************************************************************)
(* Benefits Evaluator                                                      *)
(***************************************************************************)
\* items.find((item) => item.product.id === BDAY_CAKE_ID)
HasCake(items) == \E i \in 1 .. Len(items) : items[i].product.id = BDAY_CAKE_ID
FindCake(items) ==
  items[CHOOSE i \in 1 .. Len(items) :
          /\ items[i].product.id = BDAY_CAKE_ID
          /\ \A j \in 1 .. (i - 1) : items[j].product.id # BDAY_CAKE_ID]

\* the senior/promo amount of benefitsForCart; first the variant that takes
\* the larger of the two amounts
UserDiscOfMax(base, discountFromItems, percent) ==
  IF percent > 0 THEN Max(base, discountFromItems) ELSE 0

UserDiscOf(base, discountFromItems, percent) ==
  IF percent > 0 THEN Min(base, discountFromItems) ELSE 0

\* freeShipping of benefitsForCart; first the variant that asks for an
\* applied reward
FreeShippingWhenApplied(rewarded, bdayApplied, onlyCakeInCart) ==
  rewarded /\ bdayApplied /\ onlyCakeInCart

FreeShippingOf(rewarded, bdayApplied, onlyCakeInCart) ==
  rewarded /\ onlyCakeInCart

benefitsForCart(items, subTotal) ==
  IF customerSession = NULL
  THEN [userDisc |-> 0, bdayDisc |-> 0, bdayEligible |-> FALSE,
        bdayApplied |-> FALSE, freeShipping |-> FALSE,
        userLabel |-> "", bdayLabel |-> "", shippingLabel |-> ""]
  ELSE LET eligibleToday == birthdayRewardEligible
           rewardAvailable == birthdayRewardAvailable
           rewarded == rewardAvailable /\ HasCake(items) /\ FindCake(items).qty > 0
           cakeDiscount == IF rewarded THEN FindCake(items).pricing.discountTotal ELSE 0
           bdayDisc == cakeDiscount
           bdayApplied == rewarded /\ cakeDiscount > 0
           onlyCakeInCart == Len(items) = 1
           freeShipping == FreeShippingOf(rewarded, bdayApplied, onlyCakeInCart)
           percent == userDiscountPercent
           base == Max(0, subTotal - bdayDisc)
           discountFromItems == SumOver([i \in 1..Len(items) |-> EntryDiscountTotal(items[i])])
           userDisc == UserDiscOf(base, discountFromItems, percent)
           age == computeAge(customerSession.fnac)
           userLabel ==
             IF percent > 0
             THEN IF age # NoAge /\ age >= 50 /\ percent >= 50 THEN "Beneficio Adulto Mayor"
                  ELSE IF customerSession.felices50 THEN "Beneficio FELICES50"
                  ELSE "Beneficio de usuario"
             ELSE ""
       IN [userDisc |-> userDisc,
           bdayDisc |-> bdayDisc,
           bdayEligible |-> eligibleToday,
           bdayApplied |-> bdayApplied,
           freeShipping |-> freeShipping,
           userLabel |-> userLabel,
           bdayLabel |-> IF rewarded THEN "Beneficio DUOC: Torta de Cumpleanos gratis" ELSE "",
           shippingLabel |-> IF freeShipping THEN "Envio gratis por tu cumpleanos DUOC" ELSE ""]

(***************************************************************************)
(* Checkout Totalizer (the render of CarritoPage)                          *)
(***************************************************************************)
benefits == benefitsForCart(cartTotals.items, cartTotals.subTotal)

baseAfterBenefits ==
  Max(0, cartTotals.subTotal - benefits.bdayDisc - benefits.userDisc)

shipBeforeCoupons == IF benefits.freeShipping THEN 0 ELSE shippingCost

couponInfo == evaluateCoupon(baseAfterBenefits, shipBeforeCoupons)

\* the shipping charged; first the variant that forgets the coupon's shipping
effectiveShipIgnoringCoupon ==
  IF benefits.freeShipping THEN 0 ELSE shipBeforeCoupons

effectiveShip ==
  IF benefits.freeShipping THEN 0
  ELSE IF couponInfo.valid THEN couponInfo.shipAfter ELSE shipBeforeCoupons

total ==
  Max(0, baseAfterBenefits - (IF couponInfo.valid THEN couponInfo.discount ELSE 0)
         + effectiveShip)

\* the amounts handleCheckout writes into the order it builds
perItemDiscount ==
  SumOver([i \in 1 .. Len(cartTotals.items) |->
             Max(0, cartTotals.items[i].subtotal - cartTotals.items[i].pricing.total)])

shippingDiscount == Max(0, shipBeforeCoupons - effectiveShip)

couponDiscount == IF couponInfo.valid THEN couponInfo.discount ELSE 0

discountTotal == perItemDiscount + shippingDiscount + couponDiscount

newOrder ==
  [total |-> total,
   subtotal |-> cartTotals.subTotal,
   discountTotal |-> discountTotal,
   shippingCost |-> effectiveShip]


(***************************************************************************)
(* Operations of the provider                                              *)
(***************************************************************************)
\* the prices the backend or an administrator may record for the cake
CakePrices == {0, BackendPrice(BDAY_CAKE_ID)}

\* the product lists the backend can answer a fetch with: each product
\* either inactive or active with some stock
RemoteCatalogs ==
  {[id \in ProductIds |->
      [price |-> IF id = BDAY_CAKE_ID THEN cakePrice ELSE BackendPrice(id),
       stock |-> Max(0, st[id]), active |-> st[id] >= 0]] :
     st \in [ProductIds -> -1 .. MaxStock], cakePrice \in CakePrices}

\* refreshProducts, when the fetch succeeds (a failed fetch changes no state)
RefreshProducts(remote) ==
  /\ products' = fetchProducts(remote)
  /\ UNCHANGED <<cart, customerProfile, accounts, coupon, couponDefinitions,
                 shippingCost, lastPricing>>
  /\ UNCHANGED <<auth, adminSession, authCalls, fetches>>

\* refreshCoupons, when the fetch succeeds
RefreshCoupons ==
  /\ couponDefinitions' = RemoteCoupons
  /\ UNCHANGED <<products, cart, customerProfile, accounts, coupon,
                 shippingCost, lastPricing>>
  /\ UNCHANGED <<auth, adminSession, authCalls, fetches>>

\* customerProfile?.status === "inactive"; first the variant that compares
\* with the status as the backend spells it
IsInactiveAsSent(profile) == profile # NULL /\ profile.status = "INACTIVE"

IsInactive(profile) == profile # NULL /\ profile.status = "inactive"

\* prev.findIndex((item) => item.id === id && (item.msg || "") === msg), 0 for -1;
\* first the variant that looks for the product id alone
FindLineById(prev, id, msg) ==
  IF \E i \in 1 .. Len(prev) : prev[i].id = id
  THEN CHOOSE i \in 1 .. Len(prev) :
         /\ prev[i].id = id
         /\ \A j \in 1 .. (i - 1) : prev[j].id # id
  ELSE 0

FindLine(prev, id, msg) ==
  IF \E i \in 1 .. Len(prev) : prev[i].id = id /\ prev[i].msg = msg
  THEN CHOOSE i \in 1 .. Len(prev) :
         /\ prev[i].id = id /\ prev[i].msg = msg
         /\ \A j \in 1 .. (i - 1) : ~(prev[j].id = id /\ prev[j].msg = msg)
  ELSE 0

\* the ceiling addToCart and setCartQty put on one line of product
LineLimit(product) ==
  IF product.id = BDAY_CAKE_ID THEN Min(1, product.stock) ELSE product.stock

\* the cart addToCart's updater returns for prev
AddToCartUpdate(prev, product, qty, msg) ==
  LET id == product.id
      desired == IF IsFinite(qty) THEN Max(1, qty) ELSE NaN
      idx == FindLine(prev, id, msg)
      currentQty == IF idx > 0 THEN prev[idx].qty ELSE 0
      limit == LineLimit(product)
      remaining == IF IsFinite(currentQty) THEN Max(0, limit - currentQty) ELSE NaN
      toAdd == IF IsFinite(desired) /\ IsFinite(remaining)
               THEN Min(desired, remaining) ELSE NaN
  IN IF IsFinite(remaining) /\ remaining <= 0 THEN prev
     ELSE IF IsFinite(toAdd) /\ toAdd <= 0 THEN prev
     ELSE IF idx > 0
     THEN [prev EXCEPT ![idx].qty =
             IF IsFinite(prev[idx].qty) /\ IsFinite(toAdd)
             THEN prev[idx].qty + toAdd ELSE NaN]
     ELSE Append(prev, [id |-> id, qty |-> toAdd, msg |-> msg])

AddToCart(id, qty, msg) ==
  /\ FindLine(cart, id, msg) > 0 \/ Len(cart) < MaxCartLines
  /\ cart' =
       IF ~HasProduct(id) THEN cart
       ELSE IF IsInactive(customerProfile) THEN cart
       ELSE IF FindProduct(id).stock <= 0 THEN cart
       ELSE IF id = BDAY_CAKE_ID /\ ~birthdayRewardAvailable THEN cart
       ELSE AddToCartUpdate(cart, FindProduct(id), qty, msg)
  /\ UNCHANGED <<products, customerProfile, accounts, coupon, couponDefinitions,
                 shippingCost, lastPricing>>
  /\ UNCHANGED <<auth, adminSession, authCalls, fetches>>

\* the sequence prev without its element idx (next.splice(idx, 1))
Splice(prev, idx) ==
  [i \in 1 .. (Len(prev) - 1) |-> IF i < idx THEN prev[i] ELSE prev[i + 1]]

SetCartQty(id, qty, msg) ==
  /\ cart' =
       IF ~HasProduct(id) THEN cart
       ELSE IF IsInactive(customerProfile) THEN cart
       ELSE LET product == FindProduct(id)
                isBirthdayCake == product.id = BDAY_CAKE_ID
                desiredRaw == IF IsFinite(qty) THEN qty ELSE 0
                desired == IF product.stock > 0 THEN Max(1, desiredRaw) ELSE 0
                max == LineLimit(product)
                nextQty == Min(desired, max)
                idx == FindLine(cart, id, msg)
            IN IF idx = 0 THEN cart
               ELSE IF nextQty = 0 \/ (isBirthdayCake /\ ~birthdayRewardAvailable)
               THEN Splice(cart, idx)
               ELSE [cart EXCEPT ![idx].qty = nextQty]
  /\ UNCHANGED <<products, customerProfile, accounts, coupon, couponDefinitions,
                 shippingCost, lastPricing>>
  /\ UNCHANGED <<auth, adminSession, authCalls, fetches>>

RemoveFromCart(id, msg) ==
  /\ cart' = SelectSeq(cart, LAMBDA item : ~(item.id = id /\ item.msg = msg))
  /\ UNCHANGED <<products, customerProfile, accounts, coupon, couponDefinitions,
                 shippingCost, lastPricing>>
  /\ UNCHANGED <<auth, adminSession, authCalls, fetches>>

ClearCart ==
  /\ cart' = <<>>
  /\ UNCHANGED <<products, customerProfile, accounts, coupon, couponDefinitions,
                 shippingCost, lastPricing>>
  /\ UNCHANGED <<auth, adminSession, authCalls, fetches>>

\* setShippingCostState as mapPreferencesFromProfile leaves it for profile
ShipAfterPreferences(profile) ==
  IF profile.defaultShip # 0 THEN normalizeShipCost(profile.defaultShip)
  ELSE shippingCost

\* loginCustomer, when login and hydrateForAuth succeed for account a
LoginCustomer(a) ==
  /\ auth' = AuthOf("CUSTOMER", a)
  /\ adminSession' = NULL
  /\ UNCHANGED <<authCalls, fetches>>
  /\ customerProfile' = mapCustomerProfile(accounts[a])
  /\ shippingCost' = ShipAfterPreferences(mapCustomerProfile(accounts[a]))
  /\ UNCHANGED <<products, cart, accounts, coupon, couponDefinitions, lastPricing>>

\* performRefresh, when the refresh token has expired or the refresh fails:
\* applyAuthState(EMPTY_AUTH) drops the profile and leaves the cart alone (a
\* successful refresh does not hydrate and changes nothing here)
PerformRefresh ==
  /\ auth.token
  /\ auth' = EMPTY_AUTH
  /\ customerProfile' = NULL
  /\ adminSession' = NULL
  /\ UNCHANGED <<authCalls, fetches>>
  /\ UNCHANGED <<products, cart, accounts, coupon, couponDefinitions, shippingCost,
                 lastPricing>>

\* logoutCustomer: setCart([]) and applyAuthState(EMPTY_AUTH)
LogoutCustomer ==
  /\ cart' = <<>>
  /\ auth' = EMPTY_AUTH
  /\ customerProfile' = NULL
  /\ adminSession' = NULL
  /\ UNCHANGED <<authCalls, fetches>>
  /\ UNCHANGED <<products, accounts, coupon, couponDefinitions, shippingCost,
                 lastPricing>>

SetShippingCost(value) ==
  /\ shippingCost' = Max(0, value)
  /\ UNCHANGED <<products, cart, customerProfile, accounts, coupon,
                 couponDefinitions, lastPricing>>
  /\ UNCHANGED <<auth, adminSession, authCalls, fetches>>

SetCoupon(code) ==
  /\ coupon' = ToUpperCase(Trim(code))
  /\ UNCHANGED <<products, cart, customerProfile, accounts, couponDefinitions,
                 shippingCost, lastPricing>>
  /\ UNCHANGED <<auth, adminSession, authCalls, fetches>>

\* handleCheckout of CarritoPage, past its early returns.  The provider's
\* upsertProduct refuses a caller who is not an administrator, so the
\* catalog is left as it is; updateCustomer stores the redemption year in
\* the backend and installs the profile the backend answers with.
Checkout ==
  /\ Len(cartTotals.items) > 0
  /\ ~IsInactive(customerProfile)
  /\ IF benefits.bdayApplied /\ customerSession # NULL
     THEN /\ accounts' = [accounts EXCEPT
                            ![customerProfile.id].birthdayRedeemedYear = ThisYear]
          /\ customerProfile' = mapCustomerProfile(accounts'[customerProfile.id])
          /\ shippingCost' = ShipAfterPreferences(customerProfile')
     ELSE UNCHANGED <<accounts, customerProfile, shippingCost>>
  /\ cart' = <<>>
  /\ UNCHANGED <<products, coupon, couponDefinitions, lastPricing>>
  /\ UNCHANGED <<auth, adminSession, authCalls, fetches>>

\* a product page or card prices a product of the catalog for a quantity
PriceProduct(id, qty) ==
  /\ HasProduct(id)
  /\ lastPricing' = [id |-> id, qty |-> qty,
                     pricing |-> getProductPricing(FindProduct(id), qty)]
  /\ UNCHANGED <<products, cart, customerProfile, accounts, coupon,
                 couponDefinitions, shippingCost>>
  /\ UNCHANGED <<auth, adminSession, authCalls, fetches>>

(***************************************************************************)
(* The storefront: catalog, cart, session and checkout                     *)
(***************************************************************************)
Init ==
  /\ products = {}
  /\ cart = <<>>
  /\ customerProfile = NULL
  /\ accounts = InitialAccounts
  /\ coupon = ""
  /\ couponDefinitions = NoCoupons
  /\ shippingCost = DEFAULT_SHIPPING_COST
  /\ lastPricing = NULL
  /\ auth = EMPTY_AUTH
  /\ adminSession = NULL
  /\ authCalls = {}
  /\ fetches = <<>>

Next ==
  \/ Checkout
  \/ \E remote \in RemoteCatalogs : RefreshProducts(remote)
  \/ \E id \in ProductIds, qty \in QtyInputs, msg \in Msgs : AddToCart(id, qty, msg)
  \/ \E id \in ProductIds, qty \in QtyInputs, msg \in Msgs : SetCartQty(id, qty, msg)
  \/ \E id \in ProductIds, msg \in Msgs : RemoveFromCart(id, msg)
  \/ ClearCart
  \/ \E a \in AccountIds : LoginCustomer(a)
  \/ LogoutCustomer
  \/ PerformRefresh

Spec == Init /\ [][Next]_vars


(***************************************************************************)
(* The Pricing Calculator on its own: any one product the catalog can      *)
(* hold, any customer, priced by a page for any quantity                   *)
(***************************************************************************)
\* the prices a product response may carry: small ones, the price of the
\* scenarios and a price below zero
PriceInputs == (0 .. MaxPrice) \cup {25000, -100}

Profiles == {NULL} \cup {mapCustomerProfile(InitialAccounts[a]) : a \in AccountIds}

InitPricing ==
  /\ \E id \in ProductIds, price \in PriceInputs :
       products = {mapProduct(id, [price |-> price, stock |-> 1, active |-> TRUE])}
  /\ customerProfile \in Profiles
  /\ cart = <<>>
  /\ accounts = InitialAccounts
  /\ coupon = ""
  /\ couponDefinitions = NoCoupons
  /\ shippingCost = DEFAULT_SHIPPING_COST
  /\ lastPricing = NULL
  /\ auth = IF customerProfile = NULL THEN EMPTY_AUTH
            ELSE AuthOf("CUSTOMER", customerProfile.id)
  /\ adminSession = NULL
  /\ authCalls = {}
  /\ fetches = <<>>

NextPricing ==
  \E id \in ProductIds, qty \in QtyInputs : PriceProduct(id, qty)

SpecPricing == InitPricing /\ [][NextPricing]_vars

(***************************************************************************)
(* The Checkout Totalizer on its own: the cart page rendered for a cart    *)
(* the storefront can hold, while the customer picks a shipping option     *)
(* and types a coupon                                                      *)
(***************************************************************************)
FullCatalog ==
  fetchProducts([id \in ProductIds |->
                   [price |-> BackendPrice(id), stock |-> MaxStock, active |-> TRUE]])

CheckoutCarts ==
  {<<>>,
   <<[id |-> "P1", qty |-> 1, msg |-> ""]>>,
   <<[id |-> "P1", qty |-> 1, msg |-> "m"], [id |-> "P1", qty |-> MaxStock, msg |-> ""]>>,
   <<[id |-> BDAY_CAKE_ID, qty |-> 1, msg |-> ""]>>,
   <<[id |-> BDAY_CAKE_ID, qty |-> 1, msg |-> ""], [id |-> "P1", qty |-> 1, msg |-> ""]>>,
   <<[id |-> "P1", qty |-> 1, msg |-> ""], [id |-> BDAY_CAKE_ID, qty |-> 1, msg |-> ""]>>}

ShippingInputs == SHIPPING_VALUES \cup {0, -500}

\* the prices the backend may record for the other product of the shop
CheckoutPrices == {3000, BackendPrice("P1")}

InitCheckout ==
  /\ \E price \in CheckoutPrices :
       products =
         fetchProducts([id \in ProductIds |->
                          [price |-> IF id = BDAY_CAKE_ID THEN BackendPrice(id) ELSE price,
                           stock |-> MaxStock, active |-> TRUE]])
  /\ customerProfile \in Profiles
  /\ cart \in CheckoutCarts
  /\ accounts = InitialAccounts
  /\ coupon = ""
  /\ couponDefinitions = NoCoupons
  /\ shippingCost = DEFAULT_SHIPPING_COST
  /\ lastPricing = NULL
  /\ auth = IF customerProfile = NULL THEN EMPTY_AUTH
            ELSE AuthOf("CUSTOMER", customerProfile.id)
  /\ adminSession = NULL
  /\ authCalls = {}
  /\ fetches = <<>>

NextCheckout ==
  \/ RefreshCoupons
  \/ \E code \in CouponInputs : SetCoupon(code)
  \/ \E value \in ShippingInputs : SetShippingCost(value)

SpecCheckout == InitCheckout /\ [][NextCheckout]_vars

(***************************************************************************)
(* The profile editor on its own: a customer who is logged in edits the    *)
(* promo code or the shipping preference, and pages price the catalog.     *)
(* The backend behind PUT /api/v1/customers/me is not part of the          *)
(* sources: it is taken to store the fields the request carries and to     *)
(* answer with the stored profile.                                         *)
(***************************************************************************)
\* the field of the updates that a field of the request is copied from
UpdateKey(r) ==
  CASE r = "birthdayRedeemedYear" -> "bdayRedeemedYear"
    [] r = "defaultShippingCost" -> "defaultShip"
    [] OTHER -> r

\* the fields updateCustomer copies into the request: those the updates carry
ForwardedFields(updates) ==
  [r \in {f \in {"promoCode", "birthdayRedeemedYear", "defaultShippingCost", "felices50"} :
            UpdateKey(f) \in DOMAIN updates} |-> updates[UpdateKey(r)]]

\* the request of updateCustomer; first the variant that derives the
\* permanent flag from the promo code it forwards
CustomerUpdateRequestFlagFromCode(updates) ==
  IF "promoCode" \in DOMAIN updates
  THEN [r \in DOMAIN ForwardedFields(updates) \cup {"felices50"} |->
          IF r = "felices50" THEN ToUpperCase(updates.promoCode) = FELICES_CODE
          ELSE ForwardedFields(updates)[r]]
  ELSE ForwardedFields(updates)

CustomerUpdateRequest(updates) == ForwardedFields(updates)

\* the profile the backend answers the request with
updateCurrentCustomer(dto, request) ==
  [f \in DOMAIN dto |-> IF f \in DOMAIN request THEN request[f] ELSE dto[f]]

UpdateInputs ==
  {[promoCode |-> p] : p \in {"", "felices50", "OTRO"}}
    \cup {[defaultShip |-> v] : v \in SHIPPING_VALUES}

UpdateCustomer(updates) ==
  /\ auth.token /\ auth.role = "CUSTOMER"
  /\ customerProfile # NULL
  /\ LET id == customerProfile.id
         profileDto == updateCurrentCustomer(accounts[id], CustomerUpdateRequest(updates))
         mapped == mapCustomerProfile(profileDto)
     IN /\ accounts' = [accounts EXCEPT ![id] = profileDto]
        /\ customerProfile' = mapped
        /\ shippingCost' = ShipAfterPreferences(mapped)
  /\ UNCHANGED <<products, cart, coupon, couponDefinitions, lastPricing>>
  /\ UNCHANGED <<auth, adminSession, authCalls, fetches>>

InitProfile ==
  /\ products = FullCatalog
  /\ customerProfile \in Profiles \ {NULL}
  /\ cart = <<>>
  /\ accounts = InitialAccounts
  /\ coupon = ""
  /\ couponDefinitions = NoCoupons
  /\ shippingCost = DEFAULT_SHIPPING_COST
  /\ lastPricing = NULL
  /\ auth = AuthOf("CUSTOMER", customerProfile.id)
  /\ adminSession = NULL
  /\ authCalls = {}
  /\ fetches = <<>>

NextProfile ==
  \/ \E updates \in UpdateInputs : UpdateCustomer(updates)
  \/ \E id \in ProductIds, qty \in QtyInputs : PriceProduct(id, qty)

SpecProfile == InitProfile /\ [][NextProfile]_vars

(***************************************************************************)
(* The Cart Aggregator on its own: the cart operations while the catalog   *)
(* is fetched again and a customer or an inactive customer signs in and    *)
(* out                                                                     *)
(***************************************************************************)
\* the catalogs the backend answers with: each product absent, out of stock
\* or in stock
CartRemotes ==
  {remote \in RemoteCatalogs :
     /\ remote[BDAY_CAKE_ID].price = 0
     /\ \A id \in ProductIds : remote[id].stock \in {0, MaxStock}}

\* a customer whose birthday reward is available and an inactive customer
CartAccounts == {"c1", "c5"}

InitCart ==
  /\ products \in {fetchProducts(remote) : remote \in CartRemotes}
  /\ customerProfile = NULL
  /\ cart = <<>>
  /\ accounts = InitialAccounts
  /\ coupon = ""
  /\ couponDefinitions = NoCoupons
  /\ shippingCost = DEFAULT_SHIPPING_COST
  /\ lastPricing = NULL
  /\ auth = EMPTY_AUTH
  /\ adminSession = NULL
  /\ authCalls = {}
  /\ fetches = <<>>

NextCart ==
  \/ \E id \in ProductIds, qty \in QtyInputs, msg \in Msgs : AddToCart(id, qty, msg)
  \/ \E id \in ProductIds, qty \in QtyInputs, msg \in Msgs : SetCartQty(id, qty, msg)
  \/ \E id \in ProductIds, msg \in Msgs : RemoveFromCart(id, msg)
  \/ ClearCart
  \/ \E remote \in CartRemotes : RefreshProducts(remote)
  \/ \E a \in CartAccounts : LoginCustomer(a)
  \/ LogoutCustomer

SpecCart == InitCart /\ [][NextCart]_vars

(***************************************************************************)
(* The catalog loads: refreshProducts with its request in flight           *)
(***************************************************************************)
\* the refreshProducts calls one run issues
MaxFetches == 3

\* the catalogs the backend answers with while orders and product updates
\* change the stock of P1
CatalogVersions ==
  {remote \in RemoteCatalogs :
     /\ remote[BDAY_CAKE_ID] = [price |-> 0, stock |-> MaxStock, active |-> TRUE]
     /\ remote["P1"].active}

\* refreshProducts up to its await: the request to fetchProducts is issued.
\* The mount effect, placeOrder, upsertProduct and removeProduct all call it.
StartRefreshProducts ==
  /\ Len(fetches) < MaxFetches
  /\ fetches' = Append(fetches, [status |-> "pending", remote |-> NULL])
  /\ UNCHANGED <<products, cart, customerProfile, accounts, coupon,
                 couponDefinitions, shippingCost, lastPricing>>
  /\ UNCHANGED <<auth, adminSession, authCalls>>

\* the answer to request i arrives and the continuation runs setProducts(remote)
FetchProductsResponse(i, remote) ==
  /\ i \in 1 .. Len(fetches)
  /\ fetches[i].status = "pending"
  /\ fetches' = [fetches EXCEPT ![i] = [status |-> "ok", remote |-> remote]]
  /\ products' = fetchProducts(remote)
  /\ UNCHANGED <<cart, customerProfile, accounts, coupon, couponDefinitions,
                 shippingCost, lastPricing>>
  /\ UNCHANGED <<auth, adminSession, authCalls>>

\* request i fails: the catch block notifies and changes no state
FetchProductsFails(i) ==
  /\ i \in 1 .. Len(fetches)
  /\ fetches[i].status = "pending"
  /\ fetches' = [fetches EXCEPT ![i] = [status |-> "failed", remote |-> NULL]]
  /\ UNCHANGED <<products, cart, customerProfile, accounts, coupon,
                 couponDefinitions, shippingCost, lastPricing>>
  /\ UNCHANGED <<auth, adminSession, authCalls>>

NextCatalog ==
  \/ StartRefreshProducts
  \/ \E i \in 1 .. MaxFetches, remote \in CatalogVersions :
       FetchProductsResponse(i, remote)
  \/ \E i \in 1 .. MaxFetches : FetchProductsFails(i)

SpecCatalog == Init /\ [][NextCatalog]_vars

(***************************************************************************)
(* The session: login, hydration, refresh and logout with calls in flight  *)
(***************************************************************************)
\* the login, hydration and refresh calls in flight at one time
MaxAuthCalls == 2

\* the users of the backend who sign in, and the role login answers for each
AuthUsers == {"c1", "c2", "admin"}

RoleOf(user) == IF user = "admin" THEN "ADMIN" ELSE "CUSTOMER"

\* what hydrateForAuth stores as adminSession
StaffSession == [correo |-> "admin", nombre |-> "Administrador", rol |-> "Administrador"]

AuthCall(kind, role, user) == [kind |-> kind, role |-> role, user |-> user]

\* loginCustomer or adminLogin (the handler asks for role) up to `await login`
StartLogin(role, user) ==
  /\ Cardinality(authCalls) < MaxAuthCalls
  /\ authCalls' = authCalls \cup {AuthCall("login", role, user)}
  /\ UNCHANGED <<products, cart, customerProfile, accounts, coupon,
                 couponDefinitions, shippingCost, lastPricing>>
  /\ UNCHANGED <<auth, adminSession, fetches>>

StartLoginCustomer(user) == StartLogin("CUSTOMER", user)

StartAdminLogin(user) == StartLogin("ADMIN", user)

\* login answers: a role other than the handler's returns without a change;
\* otherwise applyAuthState stores the token and hydrateForAuth awaits its fetch
LoginResponse(call) ==
  /\ call \in authCalls
  /\ call.kind = "login"
  /\ IF RoleOf(call.user) # call.role
     THEN /\ authCalls' = authCalls \ {call}
          /\ UNCHANGED auth
     ELSE /\ auth' = AuthOf(call.role, call.user)
          /\ authCalls' = (authCalls \ {call})
                             \cup {AuthCall("hydrate", call.role, call.user)}
  /\ UNCHANGED <<products, cart, customerProfile, accounts, coupon,
                 couponDefinitions, shippingCost, lastPricing>>
  /\ UNCHANGED <<adminSession, fetches>>

\* login rejects: the handler's catch returns { ok: false }
LoginFails(call) ==
  /\ call \in authCalls
  /\ call.kind = "login"
  /\ authCalls' = authCalls \ {call}
  /\ UNCHANGED <<products, cart, customerProfile, accounts, coupon,
                 couponDefinitions, shippingCost, lastPricing>>
  /\ UNCHANGED <<auth, adminSession, fetches>>

\* hydrateForAuth past its await, the fetches answered
HydrateResponse(call) ==
  /\ call \in authCalls
  /\ call.kind = "hydrate"
  /\ authCalls' = authCalls \ {call}
  /\ IF call.role = "CUSTOMER"
     THEN /\ customerProfile' = mapCustomerProfile(accounts[call.user])
          /\ adminSession' = NULL
          /\ shippingCost' = ShipAfterPreferences(customerProfile')
     ELSE /\ adminSession' = StaffSession
          /\ customerProfile' = NULL
          /\ UNCHANGED shippingCost
  /\ UNCHANGED <<products, cart, accounts, coupon, couponDefinitions, lastPricing>>
  /\ UNCHANGED <<auth, fetches>>

\* hydrateForAuth past its await, a fetch rejected: the catch block runs
\* setAuth(EMPTY_AUTH) and nothing else
HydrateFails(call) ==
  /\ call \in authCalls
  /\ call.kind = "hydrate"
  /\ authCalls' = authCalls \ {call}
  /\ auth' = EMPTY_AUTH
  /\ UNCHANGED <<products, cart, customerProfile, accounts, coupon,
                 couponDefinitions, shippingCost, lastPricing>>
  /\ UNCHANGED <<adminSession, fetches>>

\* adminLogout: applyAuthState(EMPTY_AUTH), whose hydrateForAuth clears the
\* profile and the admin session before it returns
AdminLogout ==
  /\ auth' = EMPTY_AUTH
  /\ customerProfile' = NULL
  /\ adminSession' = NULL
  /\ UNCHANGED <<products, cart, accounts, coupon, couponDefinitions, shippingCost,
                 lastPricing>>
  /\ UNCHANGED <<authCalls, fetches>>

\* performRefresh with a refresh token that has not expired, up to
\* `await refreshAuth`
StartRefresh ==
  /\ auth.token
  /\ Cardinality(authCalls) < MaxAuthCalls
  /\ authCalls' = authCalls \cup {AuthCall("refresh", auth.role, auth.userId)}
  /\ UNCHANGED <<products, cart, customerProfile, accounts, coupon,
                 couponDefinitions, shippingCost, lastPricing>>
  /\ UNCHANGED <<auth, adminSession, fetches>>

\* refreshAuth answers: applyAuthState(fresh tokens, { hydrate: false })
RefreshResponse(call) ==
  /\ call \in authCalls
  /\ call.kind = "refresh"
  /\ authCalls' = authCalls \ {call}
  /\ auth' = AuthOf(call.role, call.user)
  /\ UNCHANGED <<products, cart, customerProfile, accounts, coupon,
                 couponDefinitions, shippingCost, lastPricing>>
  /\ UNCHANGED <<adminSession, fetches>>

\* refreshAuth rejects: applyAuthState(EMPTY_AUTH)
RefreshFails(call) ==
  /\ call \in authCalls
  /\ call.kind = "refresh"
  /\ authCalls' = authCalls \ {call}
  /\ auth' = EMPTY_AUTH
  /\ customerProfile' = NULL
  /\ adminSession' = NULL
  /\ UNCHANGED <<products, cart, accounts, coupon, couponDefinitions, shippingCost,
                 lastPricing>>
  /\ UNCHANGED fetches

AuthCalls ==
  {AuthCall(kind, role, user) :
     kind \in {"login", "hydrate", "refresh"}, role \in {"CUSTOMER", "ADMIN"},
     user \in AuthUsers}

NextAuth ==
  \/ \E user \in AuthUsers : StartLoginCustomer(user)
  \/ \E user \in AuthUsers : StartAdminLogin(user)
  \/ \E call \in AuthCalls : LoginResponse(call)
  \/ \E call \in AuthCalls : LoginFails(call)
  \/ \E call \in AuthCalls : HydrateResponse(call)
  \/ \E call \in AuthCalls : HydrateFails(call)
  \/ LogoutCustomer
  \/ AdminLogout
  \/ PerformRefresh
  \/ StartRefresh
  \/ \E call \in AuthCalls : RefreshResponse(call)
  \/ \E call \in AuthCalls : RefreshFails(call)

SpecAuth == Init /\ [][NextAuth]_vars


(***************************************************************************)
(* Properties                                                              *)
(***************************************************************************)
items == cartTotals.items

\* the stored lines whose product id the catalog holds, in cart order
StoredLinesInCatalog ==
  SelectSeq(cart, LAMBDA item : \E p \in products : p.id = item.id)

\* the number of units of the birthday cake in the cart totals
CakeQty(entry) == IF entry.product.id = BDAY_CAKE_ID THEN entry.qty ELSE 0
CakeUnits == SumOver([i \in 1..Len(items) |-> CakeQty(items[i])])

\* C1: every pricing result of a product whose price is not negative
\* reconciles: unitPrice + discountPerUnit is the
\* original unit price, total is unitPrice times the (coerced) quantity, and
\* unitPrice, discountPerUnit and total are never negative
C1_PricingReconciles ==
  (lastPricing # NULL /\ lastPricing.pricing.originalUnitPrice >= 0) =>
    LET r == lastPricing.pricing
        quantity == IF lastPricing.qty = NaN \/ lastPricing.qty < 1
                    THEN 1 ELSE lastPricing.qty
    IN /\ r.unitPrice + r.discountPerUnit = r.originalUnitPrice
       /\ r.total = r.unitPrice * quantity
       /\ r.unitPrice >= 0
       /\ r.discountPerUnit >= 0
       /\ r.total >= 0

\* a senior priced several units of an odd-priced product: the half is rounded
C1_Witness ==
  /\ lastPricing # NULL
  /\ lastPricing.qty = MaxStock + 1
  /\ lastPricing.pricing.discountPercent = 50
  /\ lastPricing.pricing.originalUnitPrice = 25
  /\ lastPricing.pricing.unitPrice = 13
  /\ lastPricing.pricing.total = 13 * (MaxStock + 1)

\* C2: the checkout total is composed in the fixed order base after benefits,
\* shipping before the coupon, coupon, effective shipping, clamped total; it
\* is never negative, and base 20000, shipping 3000 and the flat 5000 coupon
\* give 18000
C2_CheckoutComposition ==
  LET b == benefitsForCart(cartTotals.items, cartTotals.subTotal)
      base == Max(0, cartTotals.subTotal - b.bdayDisc - b.userDisc)
      shipBefore == IF b.freeShipping THEN 0 ELSE shippingCost
      c == evaluateCoupon(base, shipBefore)
      ship == IF b.freeShipping THEN 0
              ELSE IF c.valid THEN c.shipAfter ELSE shipBefore
  IN /\ total = Max(0, base - (IF c.valid THEN c.discount ELSE 0) + ship)
     /\ total >= 0
     /\ (/\ base = 20000
         /\ shippingCost = 3000
         /\ ~b.freeShipping
         /\ c.valid
         /\ couponDefinitions[ToUpperCase(coupon)].type = "amount"
         /\ couponDefinitions[ToUpperCase(coupon)].value = 5000) => total = 18000

\* a cart worth 20000 after benefits pays 3000 of shipping and redeems the
\* flat 5000 coupon
C2_Witness ==
  /\ baseAfterBenefits = 20000
  /\ shippingCost = 3000
  /\ ~benefits.freeShipping
  /\ coupon = "5000OFF"
  /\ couponInfo.valid
  /\ couponInfo.discount = 5000
  /\ total = 18000

\* C3: a checkout whose cart holds the birthday cake while the reward is
\* available records the current year as the redemption year, so the reward
\* is no longer available afterwards
C3_RewardRedeemedByCheckout ==
  [][(Checkout /\ birthdayRewardAvailable /\ HasCake(items))
       => (customerProfile'.bdayRedeemedYear = ThisYear /\ ~birthdayRewardAvailable')]_vars

\* C4: free shipping is granted only when the birthday reward is applied and
\* the cart is exactly one line, the birthday cake
C4_FreeShippingOnlyWhenApplied ==
  benefits.freeShipping =>
    /\ benefits.bdayApplied
    /\ Len(items) = 1
    /\ items[1].product.id = BDAY_CAKE_ID

\* C5: one birthday cake plus one unit of another product, reward available:
\* the reward is applied and shipping is not free
C5_CakePlusOther ==
  (/\ birthdayRewardAvailable
   /\ Len(items) = 2
   /\ CakeUnits = 1
   /\ cartTotals.totalQty = 2)
    => (benefits.bdayApplied /\ ~benefits.freeShipping)

C7_AtMostOneCake ==
  /\ CakeUnits <= 1
  /\ Cardinality({i \in 1 .. Len(cart) : cart[i].id = BDAY_CAKE_ID}) <= 1

\* C8: every line of the cart totals has a positive quantity that does not
\* exceed the stock of its product
C8_QtyWithinStock ==
  \A i \in 1 .. Len(items) :
    /\ items[i].qty >= 1
    /\ items[i].qty <= items[i].product.stock

\* C9: the quantity of a line of the totals is max(1, min(requested,
\* available)): available is the stock, min(1, stock) for the birthday cake,
\* and a non-finite requested quantity counts as 1
C9_LineQtyClamp ==
  /\ Len(items) = Len(StoredLinesInCatalog)
  /\ \A i \in 1 .. Len(items) :
       LET stored == StoredLinesInCatalog[i]
           stock == (CHOOSE p \in products : p.id = stored.id).stock
           requested == IF stored.qty = NaN THEN 1 ELSE stored.qty
           available == IF stored.id = BDAY_CAKE_ID
                        THEN (IF stock < 1 THEN stock ELSE 1) ELSE stock
           least == IF requested < available THEN requested ELSE available
       IN items[i].qty = (IF least > 1 THEN least ELSE 1)

\* one line holds a non-finite quantity and another more than the stock left
C9_Witness ==
  /\ \E i \in 1 .. Len(cart) : cart[i].qty = NaN /\ HasProduct(cart[i].id)
  /\ \E i \in 1 .. Len(cart) :
       /\ cart[i].qty # NaN
       /\ HasProduct(cart[i].id)
       /\ FindProduct(cart[i].id).stock >= 1
       /\ cart[i].qty > FindProduct(cart[i].id).stock

\* the sum of f(items[i]) over the lines of the totals
RECURSIVE SumTo(_, _)
SumTo(f(_), n) == IF n = 0 THEN 0 ELSE f(n) + SumTo(f, n - 1)

\* C10: the totals omit the lines whose product id is not in the catalog and
\* are computed over the remaining lines only
C10_SelfHealing ==
  LET OriginalOf(i) == items[i].product.precio * items[i].qty
      DiscountedOf(i) == items[i].pricing.unitPrice * items[i].qty
      DiscountOf(i) == items[i].pricing.discountPerUnit * items[i].qty
      QtyOf(i) == items[i].qty
  IN /\ Len(items) = Len(StoredLinesInCatalog)
     /\ \A i \in 1 .. Len(items) :
          /\ items[i].product \in products
          /\ items[i].product.id = StoredLinesInCatalog[i].id
          /\ items[i].msg = StoredLinesInCatalog[i].msg
     /\ cartTotals.subTotal = SumTo(OriginalOf, Len(items))
     /\ cartTotals.effectiveSubtotal = SumTo(DiscountedOf, Len(items))
     /\ cartTotals.discountTotal = SumTo(DiscountOf, Len(items))
     /\ cartTotals.totalQty = SumTo(QtyOf, Len(items))

\* the cart still holds a line of a product the catalog lost, beside a line
\* the totals keep
C10_Witness ==
  /\ Len(cart) = 2
  /\ Len(items) = 1
  /\ ~HasProduct(cart[1].id)
  /\ cartTotals.subTotal = 20000
  /\ cartTotals.totalQty = 1

\* C11: the stored cart holds no line whose product id is absent from the
\* catalog: such a line is pruned when the product list changes
C11_CartPruned ==
  \A i \in 1 .. Len(cart) : \E p \in products : p.id = cart[i].id

\* C12: the customer discount percent is 50 when the age is above 50,
\* otherwise 10 when the promo code is the reserved code in any case or the
\* permanent flag is set, otherwise 0; the two are never added
C12_DiscountPercentPrecedence ==
  customerProfile # NULL =>
    LET age == computeAge(customerProfile.fnac)
        senior == age # NoAge /\ age > 50
        promo == \/ customerProfile.promoCode \in {"FELICES50", "felices50"}
                 \/ customerProfile.felices50
    IN /\ userDiscountPercent \in {0, 10, 50}
       /\ senior => userDiscountPercent = 50
       /\ (~senior /\ promo) => userDiscountPercent = 10
       /\ (~senior /\ ~promo) => userDiscountPercent = 0

\* a customer aged exactly 50 who holds the promo code in lower case gets 10%
C12_Witness ==
  /\ customerProfile # NULL
  /\ computeAge(customerProfile.fnac) = 50
  /\ customerProfile.promoCode = "felices50"
  /\ userDiscountPercent = 10

C15_CakeRewardPricing ==
  (lastPricing # NULL /\ lastPricing.id = BDAY_CAKE_ID /\ birthdayRewardAvailable) =>
    /\ lastPricing.pricing.unitPrice = 0
    /\ lastPricing.pricing.total = 0
    /\ lastPricing.pricing.discountPercent = 100

\* a senior whose reward is available prices several cakes
C15_Witness ==
  /\ lastPricing # NULL
  /\ lastPricing.id = BDAY_CAKE_ID
  /\ lastPricing.qty = MaxStock + 1
  /\ birthdayRewardAvailable
  /\ userDiscountPercent = 50
  /\ lastPricing.pricing.discountPercent = 100

\* C16: the reward is available exactly when the email is of the academic
\* domain, today is the birthday and the redemption year is not this year;
\* with the redemption year at this year no benefits evaluation applies the
\* reward
C16_RewardAvailability ==
  /\ birthdayRewardAvailable <=>
       /\ customerProfile # NULL
       /\ EMAIL_DUOC_REGEX(customerProfile.email)
       /\ customerProfile.fnac # NoDate
       /\ customerProfile.fnac.m = Today.m
       /\ customerProfile.fnac.d = Today.d
       /\ customerProfile.bdayRedeemedYear # Today.y
  /\ (customerProfile # NULL /\ customerProfile.bdayRedeemedYear = Today.y) =>
       /\ ~benefits.bdayApplied
       /\ benefits.bdayDisc = 0
       /\ ~benefits.freeShipping
       /\ benefits.bdayLabel = ""

\* a customer who claimed the reward this year holds a cart with the cake
C16_Witness ==
  /\ customerProfile # NULL
  /\ birthdayRewardEligible
  /\ customerProfile.bdayRedeemedYear = Today.y
  /\ HasCake(items)
  /\ ~benefits.bdayApplied

\* C17: a cart of the birthday cake alone, for a customer whose reward is
\* available, has the checkout total 0 whatever the shipping option and the
\* coupon
C17_CakeOnlyTotalZero ==
  (/\ birthdayRewardAvailable
   /\ Len(items) = 1
   /\ items[1].product.id = BDAY_CAKE_ID) => total = 0

\* the cake alone, the dearest shipping option and a valid flat coupon
C17_Witness ==
  /\ birthdayRewardAvailable
  /\ Len(items) = 1
  /\ items[1].product.id = BDAY_CAKE_ID
  /\ shippingCost = 6000
  /\ coupon = "5000OFF"
  /\ couponInfo.valid
  /\ total = 0

\* C18: for a guest the discount percent is 0, no line is discounted and the
\* benefits are all zero, false and empty, also with the cake in the cart
C18_GuestNoBenefits ==
  customerProfile = NULL =>
    /\ userDiscountPercent = 0
    /\ \A i \in 1 .. Len(items) :
         /\ items[i].pricing.discountPercent = 0
         /\ items[i].pricing.unitPrice = items[i].pricing.originalUnitPrice
         /\ items[i].pricing.discountTotal = 0
    /\ benefits = [userDisc |-> 0, bdayDisc |-> 0, bdayEligible |-> FALSE,
                   bdayApplied |-> FALSE, freeShipping |-> FALSE,
                   userLabel |-> "", bdayLabel |-> "", shippingLabel |-> ""]

\* a guest holds a cart with the cake and another product
C18_Witness ==
  /\ customerProfile = NULL
  /\ HasCake(items)
  /\ Len(items) = 2
  /\ cartTotals.subTotal = 20000

\* C19: an empty code, the reserved promo code (also when the catalog holds
\* a coupon of that code) and a code the catalog does not hold are invalid,
\* with discount 0 and the shipping cost unchanged
C19_InvalidCoupons ==
  (\/ coupon = ""
   \/ coupon = "FELICES50"
   \/ coupon \notin DOMAIN couponDefinitions)
    => couponInfo = [valid |-> FALSE, discount |-> 0, shipAfter |-> shipBeforeCoupons]

\* the reserved code is entered while the catalog holds a coupon of that code
C19_Witness ==
  /\ coupon = "FELICES50"
  /\ "FELICES50" \in DOMAIN couponDefinitions
  /\ ~couponInfo.valid
  /\ shipBeforeCoupons = 6000
  /\ couponInfo.shipAfter = 6000

\* C20: a valid flat-amount coupon discounts min(max(value, 0), subtotal),
\* not below 0, so the base after the coupon is not negative, and returns
\* the shipping it was given; subtotal 3000 and value 5000 give 3000 and 0
C20_FlatCouponClamp ==
  (couponInfo.valid /\ couponDefinitions[coupon].type = "amount") =>
    LET value == couponDefinitions[coupon].value
        capped == IF value > 0 THEN value ELSE 0
        least == IF capped < baseAfterBenefits THEN capped ELSE baseAfterBenefits
    IN /\ couponInfo.discount = (IF least > 0 THEN least ELSE 0)
       /\ baseAfterBenefits - couponInfo.discount >= 0
       /\ couponInfo.shipAfter = shipBeforeCoupons
       /\ (baseAfterBenefits = 3000 /\ value = 5000) =>
            (couponInfo.discount = 3000
             /\ baseAfterBenefits - couponInfo.discount = 0)

\* a cart worth 3000 redeems the flat coupon of 5000
C20_Witness ==
  /\ baseAfterBenefits = 3000
  /\ coupon = "5000OFF"
  /\ couponInfo.valid
  /\ couponInfo.discount = 3000
  /\ total = shippingCost

\* C21: a valid free-shipping coupon gives discount 0 and shipping 0 for
\* every shipping cost it is given, 0 included; with the birthday free
\* shipping as well the shipping charged is 0, and it is never negative
C21_FreeShippingCoupon ==
  /\ (couponInfo.valid /\ couponDefinitions[coupon].type = "ship") =>
       /\ couponInfo.discount = 0
       /\ couponInfo.shipAfter = 0
       /\ effectiveShip = 0
       /\ total = baseAfterBenefits
  /\ benefits.freeShipping => effectiveShip = 0
  /\ effectiveShip >= 0

\* the free-shipping coupon is redeemed on a cart whose shipping is already
\* free for the birthday
C21_Witness ==
  /\ benefits.freeShipping
  /\ shipBeforeCoupons = 0
  /\ shippingCost = 6000
  /\ coupon = "ENVIOGRATIS"
  /\ couponInfo.valid
  /\ effectiveShip = 0

\* C22: negative monetary inputs never come out negative: the unit price and
\* the totals of a pricing result, the coupon discount, the stored shipping
\* cost and the checkout total are all at least 0
C22_NegativeInputsNotPropagated ==
  /\ lastPricing # NULL =>
       /\ lastPricing.pricing.unitPrice >= 0
       /\ lastPricing.pricing.total >= 0
       /\ lastPricing.pricing.discountTotal >= 0
  /\ couponInfo.discount >= 0
  /\ shippingCost >= 0
  /\ total >= 0

\* C23: the catalog the application holds has the birthday cake at price 0,
\* whatever price the backend answered with
C23_CakePriceZero ==
  \A p \in products : p.id = BDAY_CAKE_ID => p.precio = 0

\* the catalog holds the cake, in stock, beside a product at its own price
C23_Witness ==
  /\ \E p \in products : p.id = BDAY_CAKE_ID /\ p.precio = 0 /\ p.stock = MaxStock
  /\ \E p \in products : p.id = "P1" /\ p.precio = BackendPrice("P1")

\* the stored lines of c other than the line of the pair (id, msg), in order
OtherLines(c, id, msg) ==
  SelectSeq(c, LAMBDA item : ~(item.id = id /\ item.msg = msg))

\* C24: no two stored lines have the same pair (product id, message);
\* addToCart on a pair the cart holds raises the quantity of that line, on a
\* new pair it appends a line; addToCart, setCartQty and removeFromCart leave
\* every line of another pair as it was
C24_CartLineIdentity ==
  [][/\ \A i, j \in 1 .. Len(cart') :
          (cart'[i].id = cart'[j].id /\ cart'[i].msg = cart'[j].msg) => i = j
     /\ \A id \in ProductIds, msg \in Msgs :
          LET held == \E i \in 1 .. Len(cart) : cart[i].id = id /\ cart[i].msg = msg
          IN /\ (\E qty \in QtyInputs : AddToCart(id, qty, msg)) =>
                  /\ OtherLines(cart', id, msg) = OtherLines(cart, id, msg)
                  /\ held =>
                       /\ Len(cart') = Len(cart)
                       /\ \A i \in 1 .. Len(cart) :
                            /\ cart'[i].id = cart[i].id
                            /\ cart'[i].msg = cart[i].msg
                            /\ cart'[i].qty >= cart[i].qty
                  /\ (~held /\ cart' # cart) =>
                       /\ Len(cart') = Len(cart) + 1
                       /\ SubSeq(cart', 1, Len(cart)) = cart
                       /\ cart'[Len(cart')].id = id
                       /\ cart'[Len(cart')].msg = msg
             /\ (\E qty \in QtyInputs : SetCartQty(id, qty, msg)) =>
                  OtherLines(cart', id, msg) = OtherLines(cart, id, msg)
             /\ RemoveFromCart(id, msg) =>
                  /\ OtherLines(cart', id, msg) = OtherLines(cart, id, msg)
                  /\ cart' = OtherLines(cart, id, msg)]_vars

\* the cart holds two lines of one product that differ in the message, the
\* first of them added to twice
C24_Witness ==
  /\ Len(cart) = 2
  /\ cart[1].id = "P1"
  /\ cart[2].id = "P1"
  /\ cart[1].msg # cart[2].msg
  /\ cart[1].qty = 2

\* C27: a stored cart with a line of the birthday cake belongs to an
\* authenticated customer whose reward is available; a guest holds no cake
C27_CakeOnlyWithReward ==
  (\E i \in 1 .. Len(cart) : cart[i].id = BDAY_CAKE_ID) =>
    (customerProfile # NULL /\ birthdayRewardAvailable)

\* the quantity of product id the stored lines of c hold together, a
\* non-finite quantity counted as the one unit the totals make of it
QtyHeld(c, id) ==
  SumOver([i \in 1 .. Len(c) |->
             IF c[i].id = id THEN (IF c[i].qty = NaN THEN 1 ELSE c[i].qty) ELSE 0])

\* C29: while the catalog stays as it is, the quantity of a product summed
\* over all of its cart lines never comes to exceed the stock of the product
C29_ProductQtyWithinStock ==
  [][(/\ products' = products
      /\ \A p \in products : QtyHeld(cart, p.id) <= p.stock)
       => \A p \in products : QtyHeld(cart', p.id) <= p.stock]_vars

\* C30: while the customer's account is inactive addToCart and setCartQty
\* leave the stored cart as it was, and so does addToCart for a product that
\* is not in the catalog or has no stock
C30_InactiveFrame ==
  [][\A id \in ProductIds, qty \in QtyInputs, msg \in Msgs :
       /\ (/\ customerProfile # NULL
           /\ customerProfile.status = "inactive"
           /\ (AddToCart(id, qty, msg) \/ SetCartQty(id, qty, msg))) => cart' = cart
       /\ (/\ AddToCart(id, qty, msg)
           /\ \A p \in products : p.id = id => p.stock <= 0) => cart' = cart]_vars

\* an inactive customer holds a line of a product with stock to spare
C30_Witness ==
  /\ customerProfile # NULL
  /\ customerProfile.status = "inactive"
  /\ Len(cart) = 1
  /\ cart[1].qty = 1
  /\ \E p \in products : p.id = cart[1].id /\ p.stock = MaxStock

\* C28: the order checkout builds for a cart with lines satisfies
\* total = subtotal - discountTotal + shippingCost
C28_OrderTotalIdentity ==
  Len(cartTotals.items) > 0 =>
    newOrder.total
      = newOrder.subtotal - newOrder.discountTotal + newOrder.shippingCost

\* C25: once no catalog request is in flight and the request issued last
\* was answered, the product list is the one that answer carried
C25_LastRequestWins ==
  (/\ Len(fetches) > 0
   /\ \A i \in 1 .. Len(fetches) : fetches[i].status # "pending"
   /\ fetches[Len(fetches)].status = "ok")
    => products = fetchProducts(fetches[Len(fetches)].remote)

\* C26: with no token held and no login, hydration or refresh call in
\* flight, customerProfile and adminSession are both null
C26_NoTokenNoSession ==
  (~auth.token /\ authCalls = {}) => (customerProfile = NULL /\ adminSession = NULL)

====
